---- MODULE Spec2Model ----
\* A model of the hyperapi gateway: the upstream dispatcher
\* (middleware/upstream.rs), the proxy handler (middleware/proxy.rs) and
\* the JWT auth provider (auth/jwt.rs).
\*
\* The specifications that share the module:
\*   Spec / SpecFair  the dispatcher, its workers and the proxy calls
\*   SpecFairExit     the same, with workers scheduled to leave their loop
\*   SpecFifo         the dispatcher with channels one request deeper
\*   SpecPanic        the dispatcher when worker tasks may panic
\*   SpecUri          ProxyHandler::alter_request as a pure function
\*   SpecAuth         JWTAuthProvider::update_config / identify_client
\*   SpecLock         identify_client step by step, in concurrent threads
\*   SpecConfig       both consumers of the config stream
\*   SpecRotate       the auth provider under key rotations, with the
\*                    history of the tokens it refused
EXTENDS Naturals, Integers, Sequences, FiniteSets, TLC

\* ---------------------------------------------------------------- bounds

\* Requests that may enter the dispatcher in one behaviour.
MaxReq == 2
\* Worker tasks that config updates may spawn in one behaviour.
MaxWorkers == 2
\* Depth of a worker's channel; the code uses mpsc::channel(10), scaled
\* down so that a full channel (a pending send) is reachable.
QueueDepth == 1
\* Longest request path-and-query, in characters.
MaxLen == 5
\* Capacity of the token cache; the code uses LruCache::new(1024), scaled
\* down so that eviction is reachable.
CacheCap == 2

\* ------------------------------------------------------------ strings
\* Strings are sequences of characters; an upstream target starts with one
\* token standing for its scheme and authority.

Chars == {"/", "?", "s", "x"}
Origin == "http://u1"

RECURSIVE StringsUpTo(_)
StringsUpTo(n) ==
    IF n = 0 THEN {<<>>}
    ELSE LET shorter == StringsUpTo(n - 1)
         IN  shorter \cup {Append(s, c) : s \in {t \in shorter : Len(t) = n - 1}, c \in Chars}

\* What Uri::path_and_query() can hand to alter_request: absent, the
\* asterisk form, or an origin-form string starting with '/'.
\* The absent case is written as the empty string, which no present
\* path-and-query equals.
Absent == <<>>
PathAndQueries ==
    {Absent, <<"*">>} \cup {s \in StringsUpTo(MaxLen) : s # <<>> /\ s[1] = "/"}

\* Upstream.target values: absolute URIs with zero or more trailing '/'.
Targets ==
    { <<Origin>>, <<Origin, "/">>, <<Origin, "/", "x">>,
      <<Origin, "/", "x", "/">>, <<Origin, "/", "/">> }

\* str::find: the first index holding c, 0 when there is none.
Find(s, c) ==
    IF \E i \in 1..Len(s) : s[i] = c
    THEN CHOOSE i \in 1..Len(s) : s[i] = c /\ \A j \in 1..(i - 1) : s[j] # c
    ELSE 0

\* A plausible slip: the last index holding c (str::rfind).
RFind(s, c) ==
    IF \E i \in 1..Len(s) : s[i] = c
    THEN CHOOSE i \in 1..Len(s) : s[i] = c /\ \A j \in (i + 1)..Len(s) : s[j] # c
    ELSE 0

\* str::strip_prefix("/").unwrap_or("/")
StripPrefixOrSlash(s) ==
    IF s # <<>> /\ s[1] = "/" THEN Tail(s) ELSE <<"/">>

\* str::trim_end_matches('/'): every trailing '/' is removed.
RECURSIVE TrimEndMatches(_)
TrimEndMatches(s) ==
    IF s # <<>> /\ s[Len(s)] = "/"
    THEN TrimEndMatches(SubSeq(s, 1, Len(s) - 1))
    ELSE s

\* The part of the path kept by alter_request: from the first '/' of the
\* prefix-stripped path-and-query on, or nothing when there is no '/'.
PathLeftWith(path, offset) ==
    IF offset # 0 THEN SubSeq(path, offset, Len(path)) ELSE <<>>

PathLeftLast(pq) ==
    LET path == StripPrefixOrSlash(IF pq = Absent THEN <<"/">> ELSE pq)
    IN  PathLeftWith(path, RFind(path, "/"))

PathLeft(pq) ==
    LET path == StripPrefixOrSlash(IF pq = Absent THEN <<"/">> ELSE pq)
    IN  PathLeftWith(path, Find(path, "/"))

\* ProxyHandler::alter_request: the rewritten URI and the HTTP version.
alter_request(pq, endpoint) ==
    [ uri     |-> TrimEndMatches(endpoint) \o PathLeft(pq),
      version |-> "HTTP/1.1" ]

\* ------------------------------------------------------- configuration

Services == {"s1", "s2"}
Clients == {"c1", "c2"}
AppKeys == {"k1", "k2"}
PubKeys == {"p1"}

\* config::Upstream, with the attributes the dispatcher and the proxy read.
U1 ==
    [id |-> "u1", version |-> "v1", max_conn |-> 1, weight |-> 1,
     error_threshold |-> 1, error_reset |-> 1, retry_delay |-> 1]
U2 ==
    [id |-> "u2", version |-> "v1", max_conn |-> 2, weight |-> 2,
     error_threshold |-> 2, error_reset |-> 2, retry_delay |-> 2]
UpstreamLists == {<<>>, <<U1>>, <<U1, U2>>}

\* config::ServiceInfo. Service s1 is the configured one; s2 stands for a
\* service id that clients name and no ServiceUpdate ever configures.
ServiceInfos == [service_id : {"s1"}, upstreams : UpstreamLists]

\* config::ClientInfo
ClientInfos ==
    [client_id : Clients, app_key : AppKeys, pub_key : PubKeys,
     services : {{"s1"}, {"s1", "s2"}}]

\* config::ConfigUpdate
ConfigUpdates ==
    {[kind |-> "ServiceUpdate", conf |-> c] : c \in ServiceInfos}
    \cup {[kind |-> "ServiceRemove", sid |-> s] : s \in Services}
    \cup {[kind |-> "ClientUpdate", client |-> c] : c \in ClientInfos}
    \cup {[kind |-> "ClientRemove", cid |-> c] : c \in Clients}

VARIABLES
    worker_queues,  \* UpstreamMiddleware.worker_queues: service id -> worker whose channel the sender feeds
    workers,        \* the worker tasks spawned so far, by spawn order
    reqs,           \* the requests (MwPreRequest) and where each one is
    gauge,          \* HTTP_REQ_INPROGRESS, by label values
    capacity,       \* the capacity of every worker's channel
    rewrite,        \* one alter_request call: its input and its output
    apps,           \* JWTAuthProvider.apps
    token_cache,    \* JWTAuthProvider.token_cache, most recently used first
    auth,           \* the last identify_client call: its input and its outcome
    rejected,       \* history: the tokens refused for a rotated app_key, each with
                    \* the app_key of its cache entry, until that key is current again
    threads,        \* the identify_client calls running concurrently, by thread
    cache_lock      \* the thread holding the token_cache mutex, 0 when it is free

vars == <<worker_queues, workers, reqs, gauge, capacity, rewrite, apps,
          token_cache, auth, rejected, threads, cache_lock>>
dispatchVars == <<worker_queues, workers, reqs, gauge, capacity>>
lockVars == <<threads, cache_lock>>
authVars == <<apps, token_cache, auth, rejected, lockVars>>

\* ------------------------------------------------- request rewriting

\* The state outside the rewriting specification stays as constructed.
RewriteIdle ==
    [pq |-> Absent, endpoint |-> <<Origin>>, done |-> FALSE,
     uri |-> <<>>, version |-> "HTTP/2.0"]

InitUri ==
    rewrite \in [pq : PathAndQueries, endpoint : Targets, done : {FALSE},
                 uri : {<<>>}, version : {"HTTP/1.0", "HTTP/2.0"}]

\* ProxyHandler::call applies alter_request to the request it was given.
AlterRequest ==
    /\ ~rewrite.done
    /\ LET out == alter_request(rewrite.pq, rewrite.endpoint)
       IN  rewrite' = [rewrite EXCEPT !.done = TRUE, !.uri = out.uri,
                                      !.version = out.version]
    /\ UNCHANGED <<dispatchVars, authVars>>

\* What the claims about rewriting call the parts of a request URI /S<suffix>:
\* S runs from the leading '/' to the next '/' or '?', the suffix is the rest.
IsOriginForm(pq) == pq # <<>> /\ pq[1] = "/"

SegmentEnd(pq) ==
    IF \E i \in 2..Len(pq) : pq[i] \in {"/", "?"}
    THEN CHOOSE i \in 2..Len(pq) :
             pq[i] \in {"/", "?"} /\ \A j \in 2..(i - 1) : pq[j] \notin {"/", "?"}
    ELSE Len(pq) + 1

Suffix(pq) == SubSeq(pq, SegmentEnd(pq), Len(pq))

\* The target without its trailing slashes, stated without recursion.
TargetTrimmed(t) ==
    LET n == CHOOSE k \in 0..Len(t) :
                 /\ k = 0 \/ t[k] # "/"
                 /\ \A j \in (k + 1)..Len(t) : t[j] = "/"
    IN  SubSeq(t, 1, n)

\* C5: for a request /S<suffix> whose suffix is empty or starts with '/'
\* (with or without a query), the rewritten URI is the target with its
\* trailing '/' trimmed followed by exactly that suffix, and the version
\* is HTTP/1.1.
C5_UriRewriting ==
    ( /\ rewrite.done
      /\ IsOriginForm(rewrite.pq)
      /\ Suffix(rewrite.pq) = <<>> \/ Suffix(rewrite.pq)[1] = "/" )
    => /\ rewrite.uri = TargetTrimmed(rewrite.endpoint) \o Suffix(rewrite.pq)
       /\ rewrite.version = "HTTP/1.1"

\* A rewritten /s/?/ : a path beyond the prefix and a query holding a '/'.
C5_Witness ==
    /\ rewrite.done
    /\ rewrite.pq = <<"/", "s", "/", "?", "/">>
    /\ rewrite.endpoint = <<Origin, "/", "/">>
    /\ rewrite.uri = <<Origin, "/", "?", "/">>

\* C6: the query string survives rewriting in every case, /S?q included:
\* only the service prefix is removed, so the rewritten URI is the trimmed
\* target followed by everything after /S.
C6_QueryPreserved ==
    (rewrite.done /\ IsOriginForm(rewrite.pq))
    => rewrite.uri = TargetTrimmed(rewrite.endpoint) \o Suffix(rewrite.pq)

\* ---------------------------------------------------------- dispatcher

ReqIds == 1..MaxReq
NoWorker == 0

\* The label values of the in-progress gauge: service, upstream, version.
Labels == {<<sv, u.id, u.version>> : sv \in Services, u \in {U1, U2}}
LabelOf(sv, u) == <<sv, u.id, u.version>>

\* A request that has not reached the dispatcher yet.
NewReq ==
    [sid |-> "-", st |-> "new", w |-> NoWorker, up |-> 0, ev |-> "-",
     err |-> [gateway |-> FALSE, kind |-> "-"], res |-> <<>>]

\* A request whose result has been sent: the task that held it is gone,
\* the sink keeps the result.
DoneReq(sv, event, result) ==
    [sid |-> sv, st |-> "done", w |-> NoWorker, up |-> 0, ev |-> event,
     err |-> [gateway |-> FALSE, kind |-> "-"], res |-> <<result>>]

\* A request that was dropped with its result sink: the sink is closed
\* without ever holding a result.
DroppedReq(sv) ==
    [sid |-> sv, st |-> "dropped", w |-> NoWorker, up |-> 0, ev |-> "-",
     err |-> [gateway |-> FALSE, kind |-> "-"], res |-> <<>>]

\* What a result sink receives: MwNextAction::Return(resp) with the
\* headers the proxy appended, or a GatewayError.
OkResult(u) ==
    [what |-> "Return",
     headers |-> {<<"X-UPSTREAM-ID", u.id>>, <<"X-UPSTREAM-VERSION", u.version>>}]
ErrResult(kind) == [what |-> kind, headers |-> {}]

\* A boxed error of the stack: a GatewayError, or a foreign error type
\* (hyper::Error, tower's load_shed::error::Overloaded).
GatewayErr(kind) == [gateway |-> TRUE, kind |-> kind]
ForeignErr(kind) == [gateway |-> FALSE, kind |-> kind]

\* service_worker's mapping of a failed call: a GatewayError is passed on,
\* any other error becomes UpstreamError.
MapError(e) ==
    IF e.gateway THEN ErrResult(e.kind) ELSE ErrResult("UpstreamError")

\* A slip in the timeout arm: leaving the block before the decrement.
call_future_leaky(event) ==
    CASE event = "response" ->
            [dec |-> 1, ok |-> TRUE, err |-> ForeignErr("-")]
      [] event = "transport_error" ->
            [dec |-> 0, ok |-> FALSE, err |-> ForeignErr("hyper::Error")]
      [] event = "timeout" ->
            [dec |-> 0, ok |-> FALSE, err |-> GatewayErr("TimeoutError")]

\* The future ProxyHandler::call returns, by the event that ends the
\* select: how often the gauge is decremented and what the future yields.
\* A transport error leaves the block through the ? inside the select arm,
\* before the decrement; a timeout is kept in `result` until after it.
call_future(event) ==
    CASE event = "response" ->
            [dec |-> 1, ok |-> TRUE, err |-> ForeignErr("-")]
      [] event = "transport_error" ->
            [dec |-> 0, ok |-> FALSE, err |-> ForeignErr("hyper::Error")]
      [] event = "timeout" ->
            [dec |-> 1, ok |-> FALSE, err |-> GatewayErr("TimeoutError")]

\* The calls a worker's stack has in flight on its i-th upstream: each
\* holds one permit of that upstream's ConcurrencyLimit.
InFlight(w, i) ==
    Cardinality({r \in ReqIds :
        reqs[r].st = "inflight" /\ reqs[r].w = w /\ reqs[r].up = i})

\* HashMap::insert(service_id, tx)
InsertSenderIfAbsent(table, sv, w) ==
    IF table[sv] = NoWorker THEN [table EXCEPT ![sv] = w] ELSE table

InsertSender(table, sv, w) == [table EXCEPT ![sv] = w]

\* HashMap::remove(&service_id)
RemoveSender(table, sv) == [table EXCEPT ![sv] = NoWorker]

\* The dispatcher as constructed, with channels of capacity `depth`.
InitDispatchWith(depth) ==
    /\ worker_queues = [sv \in Services |-> NoWorker]
    /\ workers = <<>>
    /\ reqs = [r \in ReqIds |-> NewReq]
    /\ gauge = [l \in Labels |-> 0]
    /\ capacity = depth

InitDispatch == InitDispatchWith(QueueDepth)

\* A slip: a request for a service without an entry is handed to a worker
\* that is still running for it.
RequestStaleSender(r, sv) ==
    /\ reqs[r].st = "new"
    /\ \A q \in 1..(r - 1) : reqs[q].st # "new"
    /\ LET ws == {w \in 1..Len(workers) :
                     workers[w].alive /\ workers[w].conf.service_id = sv}
           to == IF worker_queues[sv] # NoWorker THEN {worker_queues[sv]} ELSE ws
       IN  IF to # {}
           THEN \E w \in to :
                    reqs' = [reqs EXCEPT ![r].sid = sv, ![r].st = "sending", ![r].w = w]
           ELSE reqs' = [reqs EXCEPT ![r] =
                            DoneReq(sv, "-", ErrResult("ServiceNotFound"))]
    /\ UNCHANGED <<worker_queues, workers, gauge, capacity, rewrite, authVars>>

\* UpstreamMiddleware::request: clone the service's sender (the send
\* itself happens in the returned future), or answer ServiceNotFound.
\* Requests are numbered in the order they arrive.
Request(r, sv) ==
    /\ reqs[r].st = "new"
    /\ \A q \in 1..(r - 1) : reqs[q].st # "new"
    /\ IF worker_queues[sv] # NoWorker
       THEN reqs' = [reqs EXCEPT ![r].sid = sv, ![r].st = "sending",
                                 ![r].w = worker_queues[sv]]
       ELSE reqs' = [reqs EXCEPT ![r] =
                        DoneReq(sv, "-", ErrResult("ServiceNotFound"))]
    /\ UNCHANGED <<worker_queues, workers, gauge, capacity, rewrite, authVars>>

\* The future request() returned: task_ch.send(task).await completes when
\* the bounded channel has room and its receiver is still there.
Send(r) ==
    /\ reqs[r].st = "sending"
    /\ workers[reqs[r].w].alive
    /\ Len(workers[reqs[r].w].queue) < capacity
    /\ workers' = [workers EXCEPT ![reqs[r].w].queue = Append(@, r)]
    /\ reqs' = [reqs EXCEPT ![r].st = "queued"]
    /\ UNCHANGED <<worker_queues, gauge, capacity, rewrite, authVars>>

\* CircuitBreakerConfig, from the settings of upstream u.
CbConfig(u) ==
    [error_threshold |-> u.error_threshold, error_reset |-> u.error_reset,
     retry_delay |-> u.retry_delay]

\* Constant(CircuitBreaker(LoadShed(ConcurrencyLimit(max_conn,
\* ProxyHandler))), weight): the inner stack of one upstream.
InnerStack(u, cb_config) ==
    [upstream_id |-> u.id, cb_config |-> cb_config, max_conn |-> u.max_conn,
     weight |-> u.weight]

\* UpstreamMiddleware::build_service: it panics on an empty list; else
\* cb_config is made once, from the first upstream, and each upstream's
\* inner stack is built with it.
build_service(conf) ==
    IF Len(conf.upstreams) = 0
    THEN [panic |-> TRUE, stacks |-> <<>>]
    ELSE LET cb_config == CbConfig(conf.upstreams[1])
         IN  [panic |-> FALSE,
              stacks |-> [k \in 1..Len(conf.upstreams) |->
                            InnerStack(conf.upstreams[k], cb_config)]]

\* LoadShed(ConcurrencyLimit(max_conn, ProxyHandler)): a call is let
\* through while the stack's own limit for that upstream has a permit left.
Admits(w, i) ==
    InFlight(w, i) < build_service(workers[w].conf).stacks[i].max_conn

\* A slip: the worker takes the message that arrived last.
RecvLast(queue) ==
    [msg |-> queue[Len(queue)], rest |-> SubSeq(queue, 1, Len(queue) - 1)]

\* rx.recv() on a channel that holds messages: the oldest one.
Recv(queue) == [msg |-> Head(queue), rest |-> Tail(queue)]

\* One turn of service_worker's loop: receive the head of the channel, wait
\* for the stack (`ready` is what its poll_ready answers), call it on the
\* upstream i the balancer picks and hand the future to a detached task.
WorkerHandle(w, i, ready) ==
    /\ w \in 1..Len(workers)
    /\ workers[w].alive
    /\ workers[w].queue # <<>>
    /\ i \in 1..Len(workers[w].conf.upstreams)
    /\ LET r == Recv(workers[w].queue).msg
           u == workers[w].conf.upstreams[i]
           l == LabelOf(workers[w].conf.service_id, u)
       IN  /\ workers' = [workers EXCEPT ![w].queue = Recv(@).rest, ![w].built = TRUE]
           /\ IF ~ready
              THEN /\ i = 1
                   /\ reqs' = [reqs EXCEPT ![r] =
                          DoneReq(reqs[r].sid, "-", ErrResult("ServiceNotReady"))]
                   /\ UNCHANGED gauge
              ELSE IF ~Admits(w, i)
              THEN /\ reqs' = [reqs EXCEPT ![r].st = "rejected", ![r].w = NoWorker,
                                    ![r].err = ForeignErr("tower::Overloaded")]
                   /\ UNCHANGED gauge
              ELSE /\ reqs' = [reqs EXCEPT ![r].st = "inflight", ![r].up = i]
                   /\ gauge' = [gauge EXCEPT ![l] = @ + 1]
    /\ UNCHANGED <<worker_queues, capacity, rewrite, authVars>>

\* The detached task of a call in flight: the select ends by `event`, the
\* gauge is decremented as the future does, the result goes to the sink.
Finish(r, event) ==
    /\ reqs[r].st = "inflight"
    /\ LET w == reqs[r].w
           u == workers[w].conf.upstreams[reqs[r].up]
           l == LabelOf(workers[w].conf.service_id, u)
           fo == call_future(event)
       IN  /\ gauge' = [gauge EXCEPT ![l] = @ - fo.dec]
           /\ reqs' = [reqs EXCEPT ![r] =
                  DoneReq(reqs[r].sid, event,
                          IF fo.ok THEN OkResult(u) ELSE MapError(fo.err))]
    /\ UNCHANGED <<worker_queues, workers, capacity, rewrite, authVars>>

\* The upstream answers, or the connection fails, before the timer.
Respond(r, event) ==
    /\ event \in {"response", "transport_error"}
    /\ Finish(r, event)

\* The per-request sleep of `timeout` fires first.
Timeout(r) == Finish(r, "timeout")

\* The detached task of a call the stack refused: its future is an error.
Deliver(r) ==
    /\ reqs[r].st = "rejected"
    /\ reqs' = [reqs EXCEPT ![r] = DoneReq(reqs[r].sid, "-", MapError(reqs[r].err))]
    /\ UNCHANGED <<worker_queues, workers, gauge, capacity, rewrite, authVars>>

\* The senders of worker w's channel that are still alive: the one in the
\* table and the clones held by pending sends.
HasSender(w) ==
    \/ worker_queues[workers[w].conf.service_id] = w
    \/ \E r \in ReqIds : reqs[r].st = "sending" /\ reqs[r].w = w

\* A slip: a sender of the channel outlives the table's entry and every
\* pending send, so the receive never answers None.
RecvClosedNever(w) == FALSE

\* A slip: the worker stops as soon as the table's sender is gone.
RecvClosedEarly(w) ==
    worker_queues[workers[w].conf.service_id] # w

\* rx.recv() answers None: every sender dropped and the channel drained.
RecvClosed(w) ==
    /\ ~HasSender(w)
    /\ workers[w].queue = <<>>

\* service_worker leaves its loop.
WorkerExit(w) ==
    /\ w \in 1..Len(workers)
    /\ workers[w].alive
    /\ RecvClosed(w)
    /\ workers' = [workers EXCEPT ![w].alive = FALSE]
    /\ UNCHANGED <<worker_queues, reqs, gauge, capacity, rewrite, authVars>>

\* The requests a set of request ids maps to DroppedReq.
Drop(rs) ==
    [r \in ReqIds |-> IF r \in rs THEN DroppedReq(reqs[r].sid) ELSE reqs[r]]

\* The requests waiting in worker w's channel.
Queued(w) == {workers[w].queue[k] : k \in 1..Len(workers[w].queue)}

\* service_worker panics in build_service (ProxyHandler::new finds no CA
\* certificate), before its first receive: the task ends, its receiver is
\* dropped and with it every request waiting in the channel.
BuildPanic(w) ==
    /\ w \in 1..Len(workers)
    /\ workers[w].alive
    /\ ~workers[w].built
    /\ workers' = [workers EXCEPT ![w].alive = FALSE, ![w].queue = <<>>]
    /\ reqs' = Drop(Queued(w))
    /\ UNCHANGED <<worker_queues, gauge, capacity, rewrite, authVars>>

\* service_worker panics in px.call (alter_request unwraps the parse of a
\* target that is no URI): the request it received and every request still
\* in the channel are dropped; calls already detached go on.
CallPanic(w) ==
    /\ w \in 1..Len(workers)
    /\ workers[w].alive
    /\ workers[w].queue # <<>>
    /\ workers' = [workers EXCEPT ![w].alive = FALSE, ![w].queue = <<>>,
                                  ![w].built = TRUE]
    /\ reqs' = Drop(Queued(w))
    /\ UNCHANGED <<worker_queues, gauge, capacity, rewrite, authVars>>

\* task_ch.send(task).await on a channel whose receiver is gone: the send
\* returns the task in an Err, `let _ =` discards it, and the task's result
\* sink is dropped with it.
SendClosed(r) ==
    /\ reqs[r].st = "sending"
    /\ ~workers[reqs[r].w].alive
    /\ reqs' = Drop({r})
    /\ UNCHANGED <<worker_queues, workers, gauge, capacity, rewrite, authVars>>

\* The updates the dispatcher is fed: every service update, and one update
\* of each client kind (it treats them all alike).
DispatcherUpdates ==
    {u \in ConfigUpdates : u.kind \in {"ServiceUpdate", "ServiceRemove"}}
    \cup {[kind |-> "ClientUpdate",
           client |-> [client_id |-> "c1", app_key |-> "k1", pub_key |-> "p1",
                       services |-> {"s1"}]],
          [kind |-> "ClientRemove", cid |-> "c1"]}

\* UpstreamMiddleware::config_update
config_update(update) ==
    /\ CASE update.kind = "ServiceUpdate" ->
              IF Len(update.conf.upstreams) > 0
              THEN /\ Len(workers) < MaxWorkers
                   /\ workers' = Append(workers,
                          [conf |-> update.conf, queue |-> <<>>, alive |-> TRUE,
                           built |-> FALSE])
                   /\ worker_queues' = InsertSender(worker_queues,
                          update.conf.service_id, Len(workers) + 1)
              ELSE /\ worker_queues' = RemoveSender(worker_queues,
                          update.conf.service_id)
                   /\ UNCHANGED workers
         [] update.kind = "ServiceRemove" ->
              /\ worker_queues' = RemoveSender(worker_queues, update.sid)
              /\ UNCHANGED workers
         [] OTHER ->
              UNCHANGED <<worker_queues, workers>>
    /\ UNCHANGED <<reqs, gauge, capacity, rewrite, authVars>>

\* ---------------------------------------------------------------- auth

\* A space-separated segment of an Authorization header, by what the JWT
\* library makes of it: `hdr` is what decode_header finds (no JWT at all,
\* a header without kid, a header with kid), `sig` the key it was signed
\* with, `n` tells tokens of one client apart.
Scheme == [hdr |-> "undecodable", kid |-> "-", sig |-> "-", n |-> 0]
EmptySegment == [hdr |-> "empty", kid |-> "-", sig |-> "-", n |-> 0]
Garbage == [hdr |-> "undecodable", kid |-> "-", sig |-> "-", n |-> 1]
NoKidToken == [hdr |-> "nokid", kid |-> "-", sig |-> "p1", n |-> 1]
SignedTokens ==
    [hdr : {"ok"}, kid : Clients, sig : PubKeys, n : {1, 2}]
    \cup [hdr : {"ok"}, kid : Clients, sig : {"forged"}, n : {1}]
Tokens == {Garbage, NoKidToken} \cup SignedTokens

\* Request heads: no Authorization header, one whose value is not visible
\* ASCII, and header values of one or two segments.
Heads ==
    {[kind |-> "absent", segs |-> <<>>], [kind |-> "opaque", segs |-> <<>>],
     [kind |-> "header", segs |-> <<Scheme>>]}
    \cup {[kind |-> "header", segs |-> <<Scheme, t>>] : t \in Tokens}

Outcome(kind, value) == [kind |-> kind, value |-> value]

\* JWTAuthProvider::extract_token
extract_token(head) ==
    IF head.kind = "absent" THEN Outcome("Err", "TokenNotFound")
    ELSE IF head.kind = "opaque" THEN Outcome("panic", "to_str")
    ELSE Outcome("Ok", IF Len(head.segs) >= 2 THEN head.segs[2] ELSE EmptySegment)

\* JWTAuthProvider::extract_kid
extract_kid(token) ==
    IF token.hdr \in {"empty", "undecodable"} THEN Outcome("panic", "decode_header")
    ELSE IF token.hdr = "nokid" THEN Outcome("Err", "InvalidToken")
    ELSE Outcome("Ok", token.kid)

\* JWTAuthProvider::verify_token: HS256 against the client's pub_key.
verify_token(token, pub_key) ==
    IF token.sig = pub_key THEN Outcome("Ok", "-") ELSE Outcome("Err", "InvalidToken")

\* LruCache: the entries, most recently used first.
CacheIndex(cache, token) ==
    IF \E i \in 1..Len(cache) : cache[i].token = token
    THEN CHOOSE i \in 1..Len(cache) : cache[i].token = token
    ELSE 0

Without(cache, i) == SubSeq(cache, 1, i - 1) \o SubSeq(cache, i + 1, Len(cache))

\* LruCache::get: a hit makes the entry the most recently used.
CacheGet(cache, token) ==
    LET i == CacheIndex(cache, token)
    IN  IF i = 0 THEN [hit |-> FALSE, key |-> "-", cache |-> cache]
        ELSE [hit |-> TRUE, key |-> cache[i].key,
              cache |-> <<cache[i]>> \o Without(cache, i)]

\* LruCache::put: replaces the token's entry, or evicts the least recently
\* used entry of a full cache.
CachePut(cache, token, key) ==
    LET i == CacheIndex(cache, token)
        rest == IF i # 0 THEN Without(cache, i)
                ELSE IF Len(cache) >= CacheCap THEN SubSeq(cache, 1, CacheCap - 1)
                ELSE cache
    IN  <<[token |-> token, key |-> key]>> \o rest

\* What a call of identify_client did: its return value (or the panic that
\* ended it), the AuthResult, the cache it left, whether it took the cache
\* lock and how often it ran verify_token.
Returned(result, client_id, sla, cache, locked, verified) ==
    [result |-> result, client_id |-> client_id, sla |-> sla, cache |-> cache,
     locked |-> locked, verified |-> verified]

\* A slip: a stale entry is verified again and overwritten.
check_cache_refresh(token, client, service_id, cache) ==
    LET got == CacheGet(cache, token)
    IN  IF got.hit /\ got.key = client.app_key
        THEN Returned("Ok", client.client_id, service_id, got.cache, TRUE, 0)
        ELSE IF verify_token(token, client.pub_key).kind = "Ok"
             THEN Returned("Ok", client.client_id, service_id,
                           CachePut(cache, token, client.app_key), TRUE, 1)
             ELSE Returned("InvalidToken", "-", "-", cache, TRUE, 1)

\* A slip: a cached token is verified on every call.
check_cache_reverify(token, client, service_id, cache) ==
    LET got == CacheGet(cache, token)
        ok == verify_token(token, client.pub_key).kind = "Ok"
    IN  IF got.hit
        THEN IF got.key = client.app_key /\ ok
             THEN Returned("Ok", client.client_id, service_id, got.cache, TRUE, 1)
             ELSE Returned("InvalidToken", "-", "-", got.cache, TRUE, 1)
        ELSE IF ok
             THEN Returned("Ok", client.client_id, service_id,
                           CachePut(cache, token, client.app_key), TRUE, 1)
             ELSE Returned("InvalidToken", "-", "-", cache, TRUE, 1)

\* The cache section of identify_client (lines 46-76).
check_cache(token, client, service_id, cache) ==
    LET got == CacheGet(cache, token)
    IN  IF got.hit
        THEN IF got.key = client.app_key
             THEN Returned("Ok", client.client_id, service_id, got.cache, TRUE, 0)
             ELSE Returned("InvalidToken", "-", "-", got.cache, TRUE, 0)
        ELSE IF verify_token(token, client.pub_key).kind = "Ok"
             THEN Returned("Ok", client.client_id, service_id,
                           CachePut(cache, token, client.app_key), TRUE, 1)
             ELSE Returned("InvalidToken", "-", "-", cache, TRUE, 1)

\* A slip: the cache is consulted before the client's services map.
identify_client_cache_first(head, service_id, registry, cache) ==
    LET tok == extract_token(head)
        kid == extract_kid(tok.value)
    IN  IF tok.kind # "Ok"
        THEN Returned(IF tok.kind = "panic" THEN "panic" ELSE tok.value,
                      "-", "-", cache, FALSE, 0)
        ELSE IF kid.kind # "Ok"
        THEN Returned(IF kid.kind = "panic" THEN "panic" ELSE kid.value,
                      "-", "-", cache, FALSE, 0)
        ELSE IF kid.value \notin DOMAIN registry
        THEN Returned("UnknownClient", "-", "-", cache, FALSE, 0)
        ELSE LET checked == check_cache(tok.value, registry[kid.value], service_id, cache)
             IN  IF checked.result = "Ok"
                    /\ service_id \notin registry[kid.value].services
                 THEN Returned("InvalidSLA", "-", "-", checked.cache, TRUE,
                               checked.verified)
                 ELSE checked

\* JWTAuthProvider::identify_client
identify_client(head, service_id, registry, cache) ==
    LET tok == extract_token(head)
        kid == extract_kid(tok.value)
    IN  IF tok.kind # "Ok"
        THEN Returned(IF tok.kind = "panic" THEN "panic" ELSE tok.value,
                      "-", "-", cache, FALSE, 0)
        ELSE IF kid.kind # "Ok"
        THEN Returned(IF kid.kind = "panic" THEN "panic" ELSE kid.value,
                      "-", "-", cache, FALSE, 0)
        ELSE IF kid.value \notin DOMAIN registry
        THEN Returned("UnknownClient", "-", "-", cache, FALSE, 0)
        ELSE IF service_id \notin registry[kid.value].services
        THEN Returned("InvalidSLA", "-", "-", cache, FALSE, 0)
        ELSE check_cache(tok.value, registry[kid.value], service_id, cache)

\* No identify_client call has been made since the last update.
AuthIdle ==
    [called |-> FALSE, head |-> [kind |-> "absent", segs |-> <<>>],
     service_id |-> "-", result |-> "-", client_id |-> "-", sla |-> "-",
     locked |-> FALSE, verified |-> 0]

\* The threads that serve requests, and a thread outside identify_client.
Threads == {1, 2}
Unlocked == 0
ThreadIdle ==
    [pc |-> "idle", token |-> EmptySegment, kid |-> "-", service_id |-> "-",
     result |-> "-"]

\* JWTAuthProvider::new
InitAuth ==
    /\ apps = [c \in {} |-> 0]
    /\ token_cache = <<>>
    /\ auth = AuthIdle
    /\ rejected = {}
    /\ threads = [t \in Threads |-> ThreadIdle]
    /\ cache_lock = Unlocked

\* One identify_client call and what it leaves in the provider.
IdentifyClientCall(head, service_id) ==
    /\ LET out == identify_client(head, service_id, apps, token_cache)
       IN  /\ token_cache' = out.cache
           /\ auth' = [called |-> TRUE, head |-> head, service_id |-> service_id,
                       result |-> out.result, client_id |-> out.client_id,
                       sla |-> out.sla, locked |-> out.locked,
                       verified |-> out.verified]
    /\ UNCHANGED <<apps, lockVars, dispatchVars, rewrite>>

\* A request reaches the auth stage.
IdentifyClient(head, service_id) ==
    /\ IdentifyClientCall(head, service_id)
    /\ UNCHANGED rejected

\* The history of refusals: a hit on an entry whose app_key is not the
\* client's (line 50, the else of lines 61-64) adds the token with the
\* key of its entry.
Refused(history, token, key) == history \cup {[token |-> token, key |-> key]}

\* A request reaches the auth stage, and the history records a refusal.
IdentifyClientLogged(head, service_id) ==
    /\ IdentifyClientCall(head, service_id)
    /\ LET out == identify_client(head, service_id, apps, token_cache)
           token == extract_token(head).value
       IN  rejected' = IF out.locked /\ out.result = "InvalidToken"
                          /\ CacheGet(token_cache, token).hit
                       THEN Refused(rejected, token,
                                    CacheGet(token_cache, token).key)
                       ELSE rejected

\* HashMap::insert / HashMap::remove on the registry.
RegistryInsert(registry, client) ==
    [c \in DOMAIN registry \cup {client.client_id} |->
        IF c = client.client_id THEN client ELSE registry[c]]

RegistryRemove(registry, cid) ==
    [c \in DOMAIN registry \ {cid} |-> registry[c]]

\* A slip: a client update flushes the token cache.
update_config_flush(update) ==
    /\ \A t \in Threads : threads[t].pc = "idle"
    /\ apps' = CASE update.kind = "ClientUpdate" -> RegistryInsert(apps, update.client)
                 [] update.kind = "ClientRemove" -> RegistryRemove(apps, update.cid)
                 [] OTHER -> apps
    /\ token_cache' = IF update.kind \in {"ClientUpdate", "ClientRemove"}
                      THEN <<>> ELSE token_cache
    /\ auth' = AuthIdle
    /\ UNCHANGED <<rejected, lockVars, dispatchVars, rewrite>>

\* One update_config call and what it leaves in the provider.
UpdateConfigCall(update) ==
    /\ \A t \in Threads : threads[t].pc = "idle"
    /\ apps' = CASE update.kind = "ClientUpdate" -> RegistryInsert(apps, update.client)
                 [] update.kind = "ClientRemove" -> RegistryRemove(apps, update.cid)
                 [] OTHER -> apps
    /\ auth' = AuthIdle
    /\ UNCHANGED <<token_cache, lockVars, dispatchVars, rewrite>>

\* JWTAuthProvider::update_config; it borrows the provider mutably, so no
\* identify_client call is running meanwhile.
update_config(update) ==
    /\ UpdateConfigCall(update)
    /\ UNCHANGED rejected

\* A ClientUpdate that makes a key current again ends the refusals that
\* were made for entries cached under that key.
ChangedBack(history, update) ==
    IF update.kind = "ClientUpdate"
    THEN {p \in history : ~ /\ p.token.kid = update.client.client_id
                             /\ p.key = update.client.app_key}
    ELSE history

\* update_config, and the history forgets the refusals it ends.
update_config_logged(update) ==
    /\ UpdateConfigCall(update)
    /\ rejected' = ChangedBack(rejected, update)

\* identify_client step by step, as concurrent threads run it (&self).
\* Lines 35-44: the lookups, which need no lock; a call they do not end
\* goes on to the cache section.
Lookups(t, head, service_id) ==
    /\ threads[t].pc = "idle"
    /\ LET out == identify_client(head, service_id, apps, token_cache)
       IN  threads' = [threads EXCEPT ![t] =
               IF out.locked
               THEN [pc |-> "lock", token |-> extract_token(head).value,
                     kid |-> extract_kid(extract_token(head).value).value,
                     service_id |-> service_id,
                     result |-> "-"]
               ELSE [ThreadIdle EXCEPT !.result = out.result]]
    /\ UNCHANGED <<cache_lock, apps, token_cache, auth, rejected, dispatchVars,
                   rewrite>>

\* Line 47: self.token_cache.lock() returns once the mutex is free; the
\* guard lives until the function returns.
LockCache(t) ==
    /\ threads[t].pc = "lock"
    /\ cache_lock = Unlocked
    /\ cache_lock' = t
    /\ threads' = [threads EXCEPT ![t].pc = "get"]
    /\ UNCHANGED <<apps, token_cache, auth, rejected, dispatchVars, rewrite>>

\* Lines 48-65: cache.get; a hit returns, which drops the guard.
GetCached(t) ==
    /\ threads[t].pc = "get"
    /\ LET got == CacheGet(token_cache, threads[t].token)
       IN  /\ token_cache' = got.cache
           /\ IF got.hit
              THEN /\ threads' = [threads EXCEPT ![t] = [ThreadIdle EXCEPT !.result =
                          IF got.key = apps[threads[t].kid].app_key
                          THEN "Ok" ELSE "InvalidToken"]]
                   /\ cache_lock' = Unlocked
              ELSE /\ threads' = [threads EXCEPT ![t].pc = "verify"]
                   /\ UNCHANGED cache_lock
    /\ UNCHANGED <<apps, auth, rejected, dispatchVars, rewrite>>

\* Line 67: verify_token, in the else branch of the lookup; a failure
\* returns through the ?, which drops the guard.
VerifyToken(t) ==
    /\ threads[t].pc = "verify"
    /\ IF verify_token(threads[t].token, apps[threads[t].kid].pub_key).kind = "Ok"
       THEN /\ threads' = [threads EXCEPT ![t].pc = "put"]
            /\ UNCHANGED cache_lock
       ELSE /\ threads' = [threads EXCEPT ![t] =
                   [ThreadIdle EXCEPT !.result = "InvalidToken"]]
            /\ cache_lock' = Unlocked
    /\ UNCHANGED <<apps, token_cache, auth, rejected, dispatchVars, rewrite>>

\* Lines 68-75: cache.put and the return, which drops the guard.
PutCached(t) ==
    /\ threads[t].pc = "put"
    /\ token_cache' = CachePut(token_cache, threads[t].token,
                               apps[threads[t].kid].app_key)
    /\ threads' = [threads EXCEPT ![t] = [ThreadIdle EXCEPT !.result = "Ok"]]
    /\ cache_lock' = Unlocked
    /\ UNCHANGED <<apps, auth, rejected, dispatchVars, rewrite>>

\* The updates the auth provider is fed: every client update, and one
\* update of each service kind (it treats them all alike).
AuthUpdates ==
    {u \in ConfigUpdates : u.kind \in {"ClientUpdate", "ClientRemove"}}
    \cup {[kind |-> "ServiceUpdate", conf |-> [service_id |-> "s1", upstreams |-> <<U1>>]],
          [kind |-> "ServiceRemove", sid |-> "s1"]}

\* -------------------------------------------------------- specifications

Init ==
    /\ InitDispatch
    /\ InitAuth
    /\ rewrite = RewriteIdle

Next ==
    \/ \E r \in ReqIds, sv \in Services : Request(r, sv)
    \/ \E r \in ReqIds : Send(r)
    \/ \E w \in 1..MaxWorkers, i \in 1..2, ready \in BOOLEAN : WorkerHandle(w, i, ready)
    \/ \E r \in ReqIds, event \in {"response", "transport_error"} : Respond(r, event)
    \/ \E r \in ReqIds : Timeout(r)
    \/ \E r \in ReqIds : Deliver(r)
    \/ \E w \in 1..MaxWorkers : WorkerExit(w)
    \/ \E update \in DispatcherUpdates : config_update(update)

\* The dispatcher with its workers and calls.
Spec == Init /\ [][Next]_vars

\* The dispatcher with channels that hold one request more, so that
\* requests wait behind one another in a channel.
FifoDepth == QueueDepth + 1
InitFifo ==
    /\ InitDispatchWith(FifoDepth)
    /\ InitAuth
    /\ rewrite = RewriteIdle
SpecFifo == InitFifo /\ [][Next]_vars

\* The dispatcher when worker tasks may panic.
NextPanic ==
    \/ Next
    \/ \E w \in 1..MaxWorkers : BuildPanic(w)
    \/ \E w \in 1..MaxWorkers : CallPanic(w)
    \/ \E r \in ReqIds : SendClosed(r)
SpecPanic == Init /\ [][NextPanic]_vars

\* The request rewriting of the proxy handler, over every bounded input.
InitRewrite == InitDispatch /\ InitAuth /\ InitUri
NextUri == AlterRequest
SpecUri == InitRewrite /\ [][NextUri]_vars

\* The auth provider under requests and config updates.
NextAuth ==
    \/ \E head \in Heads, service_id \in Services : IdentifyClient(head, service_id)
    \/ \E update \in AuthUpdates : update_config(update)
SpecAuth == Init /\ [][NextAuth]_vars

\* The auth provider with identify_client calls running concurrently; the
\* requests and updates are those of one client.
LockHeads ==
    {h \in Heads : h.kind = "absent" \/ (Len(h.segs) = 2 /\ h.segs[2].kid = "c1")}
LockUpdates ==
    {u \in AuthUpdates :
        \/ u.kind = "ClientUpdate" /\ u.client.client_id = "c1"
        \/ u.kind = "ClientRemove" /\ u.cid = "c1"}

NextLock ==
    \/ \E t \in Threads, head \in LockHeads, service_id \in Services :
           Lookups(t, head, service_id)
    \/ \E t \in Threads : LockCache(t)
    \/ \E t \in Threads : GetCached(t)
    \/ \E t \in Threads : VerifyToken(t)
    \/ \E t \in Threads : PutCached(t)
    \/ \E update \in LockUpdates : update_config(update)
SpecLock == Init /\ [][NextLock]_vars

\* Both consumers of the config stream, each fed every kind of update,
\* with requests of valid tokens filling the token cache in between.
ConfigHeads ==
    {h \in Heads : /\ Len(h.segs) = 2
                   /\ h.segs[2].hdr = "ok"
                   /\ h.segs[2].sig \in PubKeys
                   /\ h.segs[2].n = 1}
NextConfig ==
    \/ \E update \in DispatcherUpdates : config_update(update)
    \/ \E update \in AuthUpdates : update_config(update)
    \/ \E head \in ConfigHeads, service_id \in Services :
           IdentifyClient(head, service_id)
SpecConfig == Init /\ [][NextConfig]_vars

\* The auth provider under rotations of its clients' app_key, with valid
\* tokens enough to fill the token cache and evict an entry; the history
\* keeps the refusals.
RotateHeads ==
    {h \in Heads : /\ Len(h.segs) = 2
                   /\ h.segs[2].hdr = "ok"
                   /\ h.segs[2].sig \in PubKeys}
RotateUpdates ==
    {u \in AuthUpdates :
        \/ u.kind = "ClientUpdate" /\ u.client.services = {"s1"}
        \/ u.kind = "ClientRemove"}
NextRotate ==
    \/ \E head \in RotateHeads : IdentifyClientLogged(head, "s1")
    \/ \E update \in RotateUpdates : update_config_logged(update)
SpecRotate == Init /\ [][NextRotate]_vars

\* The scheduling the runtime guarantees: a pending send completes once the
\* channel has room, a worker with a queued request takes its next turn, a
\* call ends (its timer fires if nothing else does) and a detached task
\* delivers its result.
Fairness ==
    /\ \A r \in ReqIds : WF_vars(Send(r))
    /\ \A r \in ReqIds : WF_vars(Timeout(r) \/ \E event \in {"response", "transport_error"} : Respond(r, event))
    /\ \A r \in ReqIds : WF_vars(Deliver(r))
    /\ \A w \in 1..MaxWorkers : WF_vars(\E i \in 1..2, ready \in BOOLEAN : WorkerHandle(w, i, ready))

SpecFair == Spec /\ Fairness

\* A worker whose receive answers None is scheduled and leaves its loop.
FairnessExit == \A w \in 1..MaxWorkers : WF_vars(WorkerExit(w))
SpecFairExit == Spec /\ Fairness /\ FairnessExit

\* -------------------------------------------------- dispatcher claims

\* The upstream a call in flight was sent to, and its gauge label.
UpstreamOf(r) == workers[reqs[r].w].conf.upstreams[reqs[r].up]
LabelOfReq(r) == LabelOf(reqs[r].sid, UpstreamOf(r))

\* The worker spawned last for a service, NoWorker when there is none.
NewestWorker(sv) ==
    LET ws == {w \in 1..Len(workers) : workers[w].conf.service_id = sv}
    IN  IF ws = {} THEN NoWorker ELSE CHOOSE w \in ws : \A v \in ws : v <= w

C2_NewStackOnly ==
    [][ /\ \A u \in DispatcherUpdates :
              ( /\ u.kind = "ServiceUpdate"
                /\ Len(u.conf.upstreams) > 0
                /\ config_update(u) )
              => LET w == worker_queues'[u.conf.service_id]
                 IN  /\ w = Len(workers')
                     /\ w > Len(workers)
                     /\ workers'[w].conf = u.conf
        /\ \A r \in ReqIds :
              ( /\ reqs[r].st = "new"
                /\ reqs'[r].st # "new"
                /\ NewestWorker(reqs'[r].sid) # NoWorker
                /\ worker_queues[reqs'[r].sid] # NoWorker )
              => /\ reqs'[r].st = "sending"
                 /\ reqs'[r].w = NewestWorker(reqs'[r].sid)
      ]_vars

\* A request sent to the second worker while the first worker still holds
\* a request it was handed before the swap.
C2_Witness ==
    \E r, q \in ReqIds :
        /\ reqs[r].st \in {"queued", "inflight"} /\ reqs[r].w = 1
        /\ reqs[q].st = "sending" /\ reqs[q].w = 2
        /\ worker_queues["s1"] = 2

\* C3: the in-flight gauge is balanced, whatever the outcome of a call:
\* with no call outstanding every gauge is back at its baseline.
C3_GaugeBalanced ==
    (\A r \in ReqIds : reqs[r].st # "inflight")
    => \A l \in Labels : gauge[l] = 0

\* C4: the calls in flight on one upstream never exceed its max_conn, in
\* whatever stacks they were dispatched.
C4_LimitNeverExceeded ==
    \A u \in {U1, U2} :
        Cardinality({r \in ReqIds :
            reqs[r].st = "inflight" /\ UpstreamOf(r).id = u.id}) <= u.max_conn

\* C7: every call ends; a call ended by its timer yields TimeoutError and
\* nothing else (no response, no X-UPSTREAM-* header); the gauge goes up by
\* one when a call starts and a timed-out call takes that one off again.
C7_Timeout ==
    /\ \A r \in ReqIds : (reqs[r].st = "inflight") ~> (reqs[r].st = "done")
    /\ [](\A r \in ReqIds :
             (reqs[r].st = "done" /\ reqs[r].ev = "timeout")
             => reqs[r].res = <<[what |-> "TimeoutError", headers |-> {}]>>)
    /\ [][\A r \in ReqIds :
             /\ (reqs[r].st # "inflight" /\ reqs'[r].st = "inflight")
                => LET l == LabelOf(reqs'[r].sid,
                                    workers'[reqs'[r].w].conf.upstreams[reqs'[r].up])
                   IN  gauge'[l] = gauge[l] + 1
             /\ (reqs[r].st = "inflight" /\ reqs'[r].st = "done"
                                         /\ reqs'[r].ev = "timeout")
                => gauge'[LabelOfReq(r)] = gauge[LabelOfReq(r)] - 1
       ]_vars

\* A call that its timer ended, with no call left and the gauge at zero.
C7_Witness ==
    /\ \E r \in ReqIds :
          /\ reqs[r].st = "done" /\ reqs[r].ev = "timeout"
          /\ reqs[r].res = <<ErrResult("TimeoutError")>>
    /\ \A r \in ReqIds : reqs[r].st # "inflight"
    /\ \A l \in Labels : gauge[l] = 0

\* -------------------------------------------------------- auth claims

\* A head whose Authorization header carries a JWT with a kid.
WellFormed(head) ==
    /\ head.kind = "header"
    /\ Len(head.segs) >= 2
    /\ head.segs[2].hdr = "ok"

TokenOf(head) == head.segs[2]

\* The app_key the cache holds for a token, "-" when it holds none.
CachedKey(cache, token) ==
    IF CacheIndex(cache, token) = 0 THEN "-" ELSE cache[CacheIndex(cache, token)].key

\* C8: an ill-formed credential yields an error value, never a panic, and
\* leaves the token cache alone: no header gives TokenNotFound; a header
\* without a second segment, with an undecodable JWT header or with a JWT
\* header without kid gives InvalidToken.
C8_IllFormedCredential ==
    auth.called =>
        /\ auth.head.kind = "absent"
              => (auth.result = "TokenNotFound" /\ ~auth.locked)
        /\ (auth.head.kind = "header" /\ Len(auth.head.segs) < 2)
              => (auth.result = "InvalidToken" /\ ~auth.locked)
        /\ ( /\ auth.head.kind = "header"
             /\ Len(auth.head.segs) >= 2
             /\ auth.head.segs[2].hdr \in {"undecodable", "nokid"} )
              => (auth.result = "InvalidToken" /\ ~auth.locked)

\* A step that is the identify_client call recorded in auth'.
IsCall == auth'.called /\ IdentifyClient(auth'.head, auth'.service_id)

\* C9: for a well-formed token the registry decides before the cache: an
\* unregistered kid gives UnknownClient and a service missing from the
\* client's services gives InvalidSLA, whether or not the token is cached;
\* the call leaves the cache as it was and verifies nothing.
C9_LookupsBeforeCache ==
    [][(WellFormed(auth'.head) /\ IsCall)
          => LET kid == TokenOf(auth'.head).kid
             IN  /\ kid \notin DOMAIN apps
                      => /\ auth'.result = "UnknownClient"
                         /\ token_cache' = token_cache
                         /\ auth'.verified = 0
                 /\ (kid \in DOMAIN apps /\ auth'.service_id \notin apps[kid].services)
                      => /\ auth'.result = "InvalidSLA"
                         /\ token_cache' = token_cache
                         /\ auth'.verified = 0
      ]_vars

\* A cached token of a client that was removed since is answered
\* UnknownClient.
C9_Witness ==
    /\ auth.called
    /\ WellFormed(auth.head)
    /\ auth.result = "UnknownClient"
    /\ CacheIndex(token_cache, TokenOf(auth.head)) # 0

\* The token of the call is cached under a key that is not the app_key of
\* its registered client: the client's key was rotated since.
StaleHit ==
    /\ WellFormed(auth'.head)
    /\ IsCall
    /\ TokenOf(auth'.head).kid \in DOMAIN apps
    /\ CachedKey(token_cache, TokenOf(auth'.head)) # "-"
    /\ CachedKey(token_cache, TokenOf(auth'.head)) # apps[TokenOf(auth'.head).kid].app_key

\* The call answers InvalidToken, verifies nothing and leaves the token's
\* cache entry as it was.
RejectedUnverified ==
    /\ auth'.result = "InvalidToken"
    /\ auth'.verified = 0
    /\ CachedKey(token_cache', TokenOf(auth'.head))
          = CachedKey(token_cache, TokenOf(auth'.head))

\* C10 as stated: with token T cached under K1 and the client's app_key
\* changed to another key, the next call with T returns InvalidToken
\* without verification and without modifying the entry.
C10_RotationInvalidates ==
    [][StaleHit => RejectedUnverified]_vars

\* C10 amended: the same, for a call that names a service of the client's
\* services map.
C10_RotationInvalidatesForService ==
    [][(StaleHit /\ auth'.service_id \in apps[TokenOf(auth'.head).kid].services)
          => RejectedUnverified]_vars

\* A call with a token cached under the key the client had before its
\* rotation: answered InvalidToken without verification.
C10_Witness ==
    /\ auth.called
    /\ WellFormed(auth.head)
    /\ auth.result = "InvalidToken"
    /\ auth.verified = 0
    /\ TokenOf(auth.head).kid \in DOMAIN apps
    /\ CachedKey(token_cache, TokenOf(auth.head)) = "k1"
    /\ apps[TokenOf(auth.head).kid].app_key = "k2"

\* The call of this step carries a well-formed token of a registered client
\* and names a service of that client's services map: it reaches the cache.
ReachesCache ==
    /\ WellFormed(auth'.head)
    /\ IsCall
    /\ TokenOf(auth'.head).kid \in DOMAIN apps
    /\ auth'.service_id \in apps[TokenOf(auth'.head).kid].services

\* The call answers Ok with the AuthResult of its client and service.
AcceptedAs(client, service_id) ==
    /\ auth'.result = "Ok"
    /\ auth'.client_id = client.client_id
    /\ auth'.sla = service_id

\* C11: cache idempotence. While a token has a cache entry no call verifies
\* it again, and every call with it for the same client and service answers
\* the AuthResult the verifying call answered; a call that misses verifies
\* once, and inserts the token only when the verification succeeded: a
\* failed verification leaves the cache as it was.
C11_CacheIdempotence ==
    [][ReachesCache
          => LET T == TokenOf(auth'.head)
                 client == apps[T.kid]
                 key == CachedKey(token_cache, T)
             IN  /\ key # "-" => auth'.verified = 0
                 /\ key = client.app_key => AcceptedAs(client, auth'.service_id)
                 /\ key = "-"
                      => /\ auth'.verified = 1
                         /\ auth'.result = "Ok"
                              => /\ AcceptedAs(client, auth'.service_id)
                                 /\ CachedKey(token_cache', T) = client.app_key
                         /\ auth'.result # "Ok" => token_cache' = token_cache
      ]_vars

\* A call answered Ok from a full cache without verification: the token's
\* entry was there and is now the most recently used one.
C11_Witness ==
    /\ auth.called
    /\ WellFormed(auth.head)
    /\ auth.result = "Ok"
    /\ auth.verified = 0
    /\ Len(token_cache) = CacheCap
    /\ token_cache[1].token = TokenOf(auth.head)

\* C13: a request whose service has no entry in the dispatch table gets
\* exactly one ServiceNotFound on its sink and reaches no worker; a
\* ServiceRemove leaves the service without an entry, and only a
\* ServiceUpdate for that service gives it one again, so every request for
\* it in between is answered ServiceNotFound.
C13_ServiceNotFound ==
    [][ /\ \A r \in ReqIds :
              /\ ( /\ reqs[r].st = "new"
                   /\ reqs'[r].st # "new"
                   /\ worker_queues[reqs'[r].sid] = NoWorker )
                 => /\ reqs'[r] = DoneReq(reqs'[r].sid, "-", ErrResult("ServiceNotFound"))
                    /\ workers' = workers
              /\ reqs[r].st = "done" => reqs'[r] = reqs[r]
        /\ \A u \in DispatcherUpdates :
              (u.kind = "ServiceRemove" /\ config_update(u))
              => worker_queues'[u.sid] = NoWorker
        /\ \A sv \in Services :
              (worker_queues[sv] = NoWorker /\ worker_queues'[sv] # NoWorker)
              => \E u \in DispatcherUpdates :
                     /\ u.kind = "ServiceUpdate"
                     /\ u.conf.service_id = sv
                     /\ config_update(u)
      ]_vars

\* A request for s1 answered ServiceNotFound after the service was
\* removed, while a call its former worker dispatched is still in flight.
C13_Witness ==
    \E r, q \in ReqIds :
        /\ reqs[r].st = "done"
        /\ reqs[r].sid = "s1"
        /\ reqs[r].res = <<ErrResult("ServiceNotFound")>>
        /\ reqs[q].st = "inflight"
        /\ worker_queues["s1"] = NoWorker

\* C14: a ServiceUpdate with an empty upstream list is rejected: it spawns
\* no worker and leaves the dispatch table exactly as it was, so a service
\* that had a worker keeps that worker and its sender.
C14_EmptyUpdateRejected ==
    [][\A u \in DispatcherUpdates :
          ( /\ u.kind = "ServiceUpdate"
            /\ Len(u.conf.upstreams) = 0
            /\ config_update(u) )
          => /\ workers' = workers
             /\ worker_queues' = worker_queues
      ]_vars

\* Worker w runs although the table no longer holds its sender.
Replaced(w) ==
    /\ w \in 1..Len(workers)
    /\ workers[w].alive
    /\ worker_queues[workers[w].conf.service_id] # w

Exited(w) == w \in 1..Len(workers) /\ ~workers[w].alive

\* C18: a worker whose sender a ServiceUpdate or ServiceRemove took out of
\* the table eventually terminates; it leaves its loop only once every
\* clone of its sender has finished its send and its channel is drained;
\* its exit touches no request, and the calls it detached still run to
\* completion after it.
C18_ReplacedWorkerExits ==
    /\ \A w \in 1..MaxWorkers : Replaced(w) ~> Exited(w)
    /\ [][\A w \in 1..Len(workers) :
             (workers[w].alive /\ ~workers'[w].alive)
             => /\ ~HasSender(w)
                /\ workers[w].queue = <<>>
                /\ reqs' = reqs
         ]_vars
    /\ \A r \in ReqIds :
           (reqs[r].st = "inflight" /\ Exited(reqs[r].w)) ~> (reqs[r].st = "done")

\* The replaced worker has left its loop while a call it detached is still
\* in flight and the table feeds its successor.
C18_Witness ==
    \E r \in ReqIds :
        /\ reqs[r].st = "inflight"
        /\ reqs[r].w = 1
        /\ Exited(1)
        /\ worker_queues["s1"] = 2

\* C19: in a stack built for more than one upstream, the inner stack of
\* the i-th upstream is built from that upstream's own settings: the
\* circuit breaker's error_threshold, error_reset and retry_delay, the
\* concurrency limit's max_conn and the weight, for every i.
C19_OwnSettings ==
    \A w \in 1..Len(workers) :
        (workers[w].built /\ Len(workers[w].conf.upstreams) > 1)
        => LET stacks == build_service(workers[w].conf).stacks
           IN  \A i \in 1..Len(workers[w].conf.upstreams) :
                   LET u == workers[w].conf.upstreams[i]
                   IN  /\ stacks[i].cb_config = CbConfig(u)
                       /\ stacks[i].max_conn = u.max_conn
                       /\ stacks[i].weight = u.weight

\* C20: a request dispatched to an upstream whose concurrency limit is
\* saturated is not queued behind the calls in flight but rejected at
\* once, and the error its result sink receives is Overloaded.
C20_OverloadedDelivered ==
    [][\A r \in ReqIds :
          /\ (reqs[r].st = "queued" /\ reqs'[r].st = "inflight")
                => InFlight(reqs'[r].w, reqs'[r].up)
                      < workers[reqs'[r].w].conf.upstreams[reqs'[r].up].max_conn
          /\ (reqs[r].st = "rejected" /\ reqs'[r].st = "done")
                => reqs'[r].res = <<ErrResult("Overloaded")>>
      ]_vars

\* The place of request r in a channel, counted from the oldest message.
Position(queue, r) == CHOOSE k \in 1..Len(queue) : queue[k] = r

\* C17: within one worker requests begin dispatch in the order in which
\* the worker's channel received them: a completed send puts the request
\* behind every request waiting in the channel, and the request the worker
\* takes is one that no waiting request arrived before; the others keep
\* their order. (Each result is awaited in a detached task, so results
\* follow no order.)
C17_FifoDispatch ==
    [][\A r \in ReqIds :
          /\ (reqs[r].st = "sending" /\ reqs'[r].st = "queued")
                => LET before == workers[reqs[r].w].queue
                       after == workers'[reqs[r].w].queue
                   IN  /\ Len(after) = Len(before) + 1
                       /\ after[Len(after)] = r
                       /\ \A k \in 1..Len(before) : after[k] = before[k]
          /\ (reqs[r].st = "queued" /\ reqs'[r].st # "queued")
                => LET before == workers[reqs[r].w].queue
                       after == workers'[reqs[r].w].queue
                   IN  /\ \A q \in Queued(reqs[r].w) \ {r} :
                              Position(before, r) < Position(before, q)
                       /\ Len(after) = Len(before) - 1
                       /\ \A k \in 1..Len(after) : after[k] = before[k + 1]
      ]_vars

\* Two requests wait in one channel, in the order their sends completed,
\* which is not the order in which they entered request().
C17_Witness ==
    /\ Len(workers) >= 1
    /\ workers[1].alive
    /\ workers[1].queue = <<2, 1>>

\* ------------------------------------------------------- panic claims

\* C15: exactly one worker per live service: in every reachable state each
\* service in the dispatch table maps to one sender whose receiver is owned
\* by exactly one running worker task, spawned for that service.
C15_OneRunningWorker ==
    \A sv \in Services :
        worker_queues[sv] # NoWorker
        => /\ worker_queues[sv] \in 1..Len(workers)
           /\ workers[worker_queues[sv]].conf.service_id = sv
           /\ workers[worker_queues[sv]].alive

\* C12: a request routed to a service whose worker has terminated while
\* its sender is still in the dispatch table receives a ServiceNotReady
\* error on its result sink: when the send of such a request ends, the
\* sink holds exactly that error.
C12_DeadWorkerNotReady ==
    [][\A r \in ReqIds :
          ( /\ reqs[r].st = "sending"
            /\ ~workers[reqs[r].w].alive
            /\ worker_queues[reqs[r].sid] = reqs[r].w
            /\ reqs'[r].st # "sending" )
          => reqs'[r].res = <<ErrResult("ServiceNotReady")>>
      ]_vars

\* --------------------------------------------------------- lock claims

\* C16: the token-cache lock is held only across an LRU lookup or insert:
\* in no reachable state does a thread run verify_token while it holds the
\* token_cache mutex.
C16_NoVerifyUnderLock ==
    \A t \in Threads : threads[t].pc = "verify" => cache_lock # t

\* ------------------------------------------------ config stream claims

\* The client an update of a client kind names.
NamedClient(u) ==
    IF u.kind = "ClientUpdate" THEN u.client.client_id ELSE u.cid

\* C21: each component ignores the updates that are not its own. A
\* ClientUpdate or ClientRemove leaves the dispatch table and the workers
\* as they were; a ServiceUpdate or ServiceRemove leaves the client
\* registry and the token cache as they were; a ClientUpdate or
\* ClientRemove changes no registry entry but that of the client it names,
\* and never the token cache.
C21_UnrelatedIgnored ==
    [][ /\ \A u \in DispatcherUpdates :
              (u.kind \in {"ClientUpdate", "ClientRemove"} /\ config_update(u))
              => /\ worker_queues' = worker_queues
                 /\ workers' = workers
        /\ \A u \in AuthUpdates :
              update_config(u)
              => /\ token_cache' = token_cache
                 /\ u.kind \in {"ServiceUpdate", "ServiceRemove"} => apps' = apps
                 /\ u.kind \in {"ClientUpdate", "ClientRemove"}
                      => \A c \in Clients \ {NamedClient(u)} :
                             /\ c \in DOMAIN apps' <=> c \in DOMAIN apps
                             /\ c \in DOMAIN apps => apps'[c] = apps[c]
      ]_vars

\* After client c1 was given another app_key: its token is still cached
\* under the old key, client c2 is registered as before and service s1
\* still has its worker.
C21_Witness ==
    /\ ~auth.called
    /\ DOMAIN apps = {"c1", "c2"}
    /\ apps["c1"].app_key = "k2"
    /\ \E i \in 1..Len(token_cache) :
           token_cache[i].token.kid = "c1" /\ token_cache[i].key = "k1"
    /\ \E i \in 1..Len(token_cache) : token_cache[i].token.kid = "c2"
    /\ worker_queues["s1"] # NoWorker
    /\ workers[worker_queues["s1"]].alive

\* The dispatcher is as update u leaves it: for an update with upstreams
\* the service's sender feeds the worker spawned last, built from u's
\* configuration and not yet used; for the other service updates the
\* service has no entry.
DispatcherAsLeftBy(u) ==
    CASE u.kind = "ServiceUpdate" /\ Len(u.conf.upstreams) > 0 ->
            LET w == worker_queues[u.conf.service_id]
            IN  /\ w # NoWorker
                /\ w = Len(workers)
                /\ workers[w] = [conf |-> u.conf, queue |-> <<>>, alive |-> TRUE,
                                 built |-> FALSE]
                /\ \A r \in ReqIds : reqs[r].w # w
      [] u.kind = "ServiceUpdate" -> worker_queues[u.conf.service_id] = NoWorker
      [] u.kind = "ServiceRemove" -> worker_queues[u.sid] = NoWorker
      [] OTHER -> TRUE

\* The registry is as update u leaves it.
RegistryAsLeftBy(u) ==
    CASE u.kind = "ClientUpdate" ->
            /\ u.client.client_id \in DOMAIN apps
            /\ apps[u.client.client_id] = u.client
      [] u.kind = "ClientRemove" -> u.cid \notin DOMAIN apps
      [] OTHER -> TRUE

\* C22: config updates are idempotent on replay: applying an update to the
\* state its first application left changes nothing. For the auth
\* provider the registry and the cache stay as they are; for the
\* dispatcher the service keeps the same single worker and stack (no
\* further worker is spawned, the table's entry is the same).
C22_ReplayIdempotent ==
    [][ /\ \A u \in AuthUpdates :
              (RegistryAsLeftBy(u) /\ update_config(u))
              => /\ apps' = apps
                 /\ token_cache' = token_cache
        /\ \A u \in DispatcherUpdates :
              (DispatcherAsLeftBy(u) /\ config_update(u))
              => /\ workers' = workers
                 /\ worker_queues' = worker_queues
      ]_vars

\* ----------------------------------------------------- rotation claims

\* A step that is the identify_client call recorded in auth', with the
\* history kept.
IsLoggedCall == auth'.called /\ IdentifyClientLogged(auth'.head, auth'.service_id)

\* C23: invalidation by rotation is durable: a token that was refused
\* because its cached app_key is not the client's current one is accepted
\* by no later identify_client call while the client's app_key has not
\* been changed back, whatever tokens were presented in between and
\* whether or not they evicted the token's entry.
C23_DurableInvalidation ==
    [][(/\ WellFormed(auth'.head)
        /\ IsLoggedCall
        /\ \E p \in rejected : p.token = TokenOf(auth'.head))
          => auth'.result # "Ok"
      ]_vars

====
